---- MODULE Spec2Model ----
(***************************************************************************)
(* State-machine model of the analysis workflow engine of                  *)
(* ai-hedge-fund-gui: src/src/main.py (create_workflow, run_hedge_fund,    *)
(* run_hedge_fund_gui, run_from_gui, parse_hedge_fund_response), the two   *)
(* GUI entry points (src/gui_launcher.py, src/gui_main.py) and the report  *)
(* step of src/src/utils/display.py.                                       *)
(*                                                                         *)
(* One behaviour is one run request: Init draws the inputs, an entry       *)
(* action starts the run, and the remaining actions follow the code        *)
(* statement block by statement block.  The compiled graph is executed by  *)
(* LangGraph in supersteps: the nodes triggered by the nodes of the        *)
(* previous superstep run concurrently, and the next superstep starts      *)
(* when all of them have returned; an exception in a node aborts invoke.   *)
(*                                                                         *)
(* Scaling: numbers read with float() are kept in hundredths (0.5 is 50).  *)
(***************************************************************************)
EXTENDS Integers, Sequences, FiniteSets, TLC

\* ------------------------------------------------------------------ bounds
MaxSel == 2

\* Run clicks in the gui_main window
MaxClicks == 2

\* edits of an input widget between a Run click and the thread's reading
MaxEdits == 1

\* key=value lines in a .env file
MaxLines == 2

\* ------------------------------------------------------- helper operators
Range(s) == {s[i] : i \in 1..Len(s)}

EmptyMap == [k \in {} |-> 0]

Put(m, k, v) == [x \in (DOMAIN m) \cup {k} |-> IF x = k THEN v ELSE m[x]]

\* sequences of pairwise distinct elements of S, of length at most n
DistinctSeqs(S, n) ==
    {s \in UNION {[1..k -> S] : k \in 0..n} :
        \A i, j \in 1..Len(s) : i # j => s[i] # s[j]}

\* ---------------------------------------------------------- analyst keys
\* Keys a caller or a GUI check box can hand to the engine.
AnalystKeys == {"warren_buffett", "peter_lynch", "technical_analyst",
                "ben_graham", "bogus_analyst"}

\* node name registered for a key: analyst_nodes[key][0]
AgentName(key) ==
    CASE key = "warren_buffett"    -> "warren_buffett_agent"
      [] key = "peter_lynch"       -> "peter_lynch_agent"
      [] key = "technical_analyst" -> "technical_analyst_agent"
      [] key = "ben_graham"        -> "ben_graham_agent"
      [] OTHER                     -> "bogus_analyst_agent"

\* The registry get_analyst_nodes() returns (src/utils/analysts.py): a dict
\* key -> node name.  Two installations: with and without peter_lynch.
Registries ==
    { [k \in {"warren_buffett", "peter_lynch", "technical_analyst", "ben_graham"} |-> AgentName(k)],
      [k \in {"warren_buffett", "technical_analyst", "ben_graham"} |-> AgentName(k)] }

\* ANALYST_ORDER: the registered keys in display order
OrderAll == <<"warren_buffett", "peter_lynch", "technical_analyst", "ben_graham">>

AnalystOrder(reg) == SelectSeq(OrderAll, LAMBDA k : k \in DOMAIN reg)

\* ------------------------------------------------------- optional lists
\* A selected_analysts argument is None or a list of keys.
None == [isNone |-> TRUE, list |-> <<>>]

Some(l) == [isNone |-> FALSE, list |-> l]

\* Python truthiness of an optional list: None and [] are falsy
Truthy(x) == ~x.isNone /\ Len(x.list) > 0

\* ---------------------------------------------------------- create_workflow
NewStateGraph == [nodes |-> <<"start_node">>, edges |-> {}, entry |-> "unset", err |-> "none"]

\* first loop of create_workflow: analyst_nodes[analyst_key] raises KeyError
\* on the first key that is not registered; otherwise add_node and the edge
\* start_node -> node
RECURSIVE add_analyst_nodes(_, _, _, _)
add_analyst_nodes(wf, sel, reg, i) ==
    IF i > Len(sel) THEN wf
    ELSE IF sel[i] \notin DOMAIN reg THEN [wf EXCEPT !.err = "KeyError"]
    ELSE add_analyst_nodes([wf EXCEPT !.nodes = Append(@, reg[sel[i]]),
                                      !.edges = @ \cup {<<"start_node", reg[sel[i]]>>}],
                           sel, reg, i + 1)

\* variant: only the first selected analyst is wired to the risk node
connect_to_risk_first_only(sel, reg) ==
    IF Len(sel) = 0 THEN {} ELSE {<<reg[sel[1]], "risk_management_agent">>}

\* variant: the risk node is also wired to the start node
connect_to_risk_from_start(sel, reg) ==
    {<<reg[sel[i]], "risk_management_agent">> : i \in 1..Len(sel)}
        \cup {<<"start_node", "risk_management_agent">>}

\* variant: only the last selected analyst is wired to the risk node
connect_to_risk_last_only(sel, reg) ==
    IF Len(sel) = 0 THEN {} ELSE {<<reg[sel[Len(sel)]], "risk_management_agent">>}

\* second loop of create_workflow: every selected analyst node -> risk node
connect_to_risk(sel, reg) ==
    {<<reg[sel[i]], "risk_management_agent">> : i \in 1..Len(sel)}

\* variant: keys that are not registered are dropped from the selection
create_workflow_filtered(selected_analysts, reg) ==
    LET all == IF selected_analysts.isNone THEN AnalystOrder(reg)
               ELSE selected_analysts.list
        sel == SelectSeq(all, LAMBDA k : k \in DOMAIN reg)
        wf1 == add_analyst_nodes(NewStateGraph, sel, reg, 1)
    IN  [wf1 EXCEPT
            !.nodes = @ \o <<"risk_management_agent", "portfolio_manager">>,
            !.edges = @ \cup connect_to_risk(sel, reg)
                        \cup {<<"risk_management_agent", "portfolio_manager">>,
                              <<"portfolio_manager", "END">>},
            !.entry = "start_node"]

create_workflow(selected_analysts, reg) ==
    LET sel == IF selected_analysts.isNone THEN AnalystOrder(reg)
               ELSE selected_analysts.list
        wf1 == add_analyst_nodes(NewStateGraph, sel, reg, 1)
    IN  IF wf1.err # "none" THEN wf1
        ELSE [wf1 EXCEPT
                !.nodes = @ \o <<"risk_management_agent", "portfolio_manager">>,
                !.edges = @ \cup connect_to_risk(sel, reg)
                            \cup {<<"risk_management_agent", "portfolio_manager">>,
                                  <<"portfolio_manager", "END">>},
                !.entry = "start_node"]

NoWorkflow == [nodes |-> <<>>, edges |-> {}, entry |-> "unset", err |-> "none"]

\* the analyst nodes of a built plan
AnalystNodesOf(wf) == Range(wf.nodes) \ {"start_node", "risk_management_agent", "portfolio_manager"}

\* ------------------------------------------------- message contents, parsing
\* A message content is a Python value: a str (well-formed JSON text or not)
\* or something that is not a str.  value is what json.loads yields.
NoneValue == [kind |-> "none", map |-> EmptyMap]

Decision(action, confidence) == [action |-> action, confidence |-> confidence]

DecisionsFor(tickers) ==
    [kind |-> "object", map |-> [t \in Range(tickers) |-> Decision("hold", 50)]]

\* a JSON object that covers the first ticker only, with a confidence of 150
DecisionsOffScale(tickers) ==
    [kind |-> "object", map |-> [t \in {tickers[1]} |-> Decision("hold", 150)]]

JsonText(v) == [type |-> "str", wellformed |-> TRUE, value |-> v]

PlainText == [type |-> "str", wellformed |-> FALSE, value |-> NoneValue]

NotAString == [type |-> "other", wellformed |-> FALSE, value |-> NoneValue]

\* what the portfolio manager's model call can put in its message
Payloads(tickers) ==
    { JsonText(DecisionsFor(tickers)),
      JsonText(DecisionsOffScale(tickers)),
      JsonText([kind |-> "array", map |-> EmptyMap]),
      PlainText,
      NotAString }

parse_hedge_fund_response(response) ==
    IF response.type # "str" THEN NoneValue            \* TypeError -> None
    ELSE IF ~response.wellformed THEN NoneValue        \* JSONDecodeError -> None
    ELSE response.value

\* ------------------------------------------------------------ input texts
\* Texts a user can type in the cash, margin, ticker and date fields.
CashTexts == {"100000", "0", "abc", "nan"}

MarginTexts == {"0.5", "1.5", "nan"}

TickerTexts == {"", "AAPL", "AAPL,MSFT"}

\* A text typed in a date field: the year, month and day it spells, the
\* separator it uses, and whether month and day are written with two digits
\* ("2024-05-31" is padded, "2024-5-31" is not).
DateText(y, m, d, sep, padded) ==
    [empty |-> FALSE, y |-> y, m |-> m, d |-> d, sep |-> sep, padded |-> padded]

\* the empty text ""
EmptyDate == [empty |-> TRUE, y |-> 0, m |-> 0, d |-> 0, sep |-> "-", padded |-> TRUE]

\* "", "2024-05-31", "2024-5-31", "2024/05/31"
DateTexts == {EmptyDate, DateText(2024, 5, 31, "-", TRUE),
              DateText(2024, 5, 31, "-", FALSE), DateText(2024, 5, 31, "/", TRUE)}

\* float(text) succeeds
IsFloat(s) == s \in {"100000", "0", "0.5", "1.5", "nan"}

\* float("nan"): the float that is not a number
NaN == -1

\* x < y and x <= y of floats: every comparison with NaN is False
FloatLt(x, y) == x # NaN /\ y # NaN /\ x < y

FloatLe(x, y) == x # NaN /\ y # NaN /\ x <= y

\* float(text), in hundredths
Float(s) ==
    CASE s = "100000" -> 10000000
      [] s = "0.5"    -> 50
      [] s = "1.5"    -> 150
      [] s = "nan"    -> NaN
      [] OTHER        -> 0

\* text.split(",") with each part stripped
SplitTickers(s) ==
    CASE s = "AAPL"      -> <<"AAPL">>
      [] s = "AAPL,MSFT" -> <<"AAPL", "MSFT">>
      [] OTHER           -> <<"">>

\* calendar.isleap
IsLeap(y) == (y % 4 = 0 /\ y % 100 # 0) \/ y % 400 = 0

\* days of month m of year y
DaysIn(y, m) ==
    IF m = 2 THEN (IF IsLeap(y) THEN 29 ELSE 28)
    ELSE IF m \in {4, 6, 9, 11} THEN 30 ELSE 31

\* datetime.strptime(s, "%Y-%m-%d") succeeds: the directives %m and %d accept
\* one or two digits, the separator has to be "-", the date has to exist
IsYMD(s) ==
    /\ ~s.empty
    /\ s.sep = "-"
    /\ s.y \in 1..9999
    /\ s.m \in 1..12
    /\ s.d \in 1..DaysIn(s.y, s.m)

\* datetime.strptime(s, "%Y-%m-%d")
strptime(s) == [y |-> s.y, m |-> s.m, d |-> s.d]

\* date.strftime("%Y-%m-%d"): two digits for month and day
strftime(date) == DateText(date.y, date.m, date.d, "-", TRUE)

\* datetime.now().strftime("%Y-%m-%d")
Today == strftime([y |-> 2024, m |-> 1, d |-> 15])

\* variant: the day of the month is kept as it is
ThreeMonthsBefore_same_day(s) ==
    LET date == strptime(s)
        y == IF date.m > 3 THEN date.y ELSE date.y - 1
        m == IF date.m > 3 THEN date.m - 3 ELSE date.m + 9
    IN  strftime([y |-> y, m |-> m, d |-> date.d])

\* (strptime(s) - relativedelta(months=3)).strftime("%Y-%m-%d"): the month
\* goes back by three, the day is cut to the length of that month
ThreeMonthsBefore(s) ==
    LET date == strptime(s)
        y == IF date.m > 3 THEN date.y ELSE date.y - 1
        m == IF date.m > 3 THEN date.m - 3 ELSE date.m + 9
        d == IF date.d > DaysIn(y, m) THEN DaysIn(y, m) ELSE date.d
    IN  strftime([y |-> y, m |-> m, d |-> d])

\* parameters of run_hedge_fund_gui
GuiParams == {"tickers", "start_date", "end_date", "initial_cash",
              "margin_requirement", "show_reasoning", "selected_analysts",
              "model_name", "model_provider", "show_agent_graph"}

\* keys of the args_dict the launcher builds
LauncherArgKeys == GuiParams \cup {"language"}

\* the check boxes of the launcher (analysts_config)
LauncherKeys == {"warren_buffett", "peter_lynch", "technical_analyst", "ben_graham"}

\* --------------------------------------------------------------- the state
VARIABLES
    entry,            \* who starts the run: "direct", "wrapper", "launcher",
                      \* "gui_main" or "builder"
    analyst_nodes,    \* the registry get_analyst_nodes() returns
    inp,              \* the input fields / arguments of the request
    form,             \* the launcher's provider and API key fields, and the
                      \* .env file it finds
    pc,               \* position of the run
    call,             \* arguments of the run_hedge_fund_gui call
    g,                \* locals of run_hedge_fund_gui
    portfolio,        \* the run's portfolio dict
    rhf,              \* arguments of the run_hedge_fund call
    agent,            \* the compiled workflow run_hedge_fund invokes
    build_log,        \* the create_workflow calls made so far
    active,           \* nodes of the current superstep
    task,             \* state of each node of the current superstep
    writes,           \* message written by each returned node of the superstep
    started,          \* nodes that have begun at least once
    finished,         \* nodes that have returned at least once
    runs,             \* number of times each node has begun
    messages,         \* state["messages"]
    analyst_signals,  \* state["data"]["analyst_signals"]
    risk_input,       \* analyst_signals as the risk node received it
    data,             \* state["data"] without the signals, as the stages read it
    exc,              \* exception in flight, "none" if none
    result,           \* value returned to the caller of the facade
    raised,           \* an exception left the facade
    rhf_result,       \* value run_hedge_fund returned
    terminal,         \* the message content run_hedge_fund parsed
    progress,         \* the global progress tracker
    gui_language,     \* the language code the report step detected
    gui,              \* gui_main's HedgeFundGUI object: is_running, its threads
    dotenv            \* the .env file

vars == <<entry, analyst_nodes, inp, pc, call, g, portfolio, rhf, agent,
          build_log, active, task, writes, started, finished, runs, messages,
          analyst_signals, risk_input, data, exc, result, raised, rhf_result,
          terminal, progress, form, gui_language, gui, dotenv>>

inputVars == <<entry, analyst_nodes, inp, form>>

otherVars == <<gui_language, gui, dotenv>>

schedVars == <<active, task, writes, started, finished, runs, messages,
               analyst_signals, risk_input, data>>

NoCall == [via |-> "none", keys |-> {}, tickers |-> <<>>, start_date |-> EmptyDate, end_date |-> EmptyDate,
           initial_cash |-> 0, margin_requirement |-> 0, selected_analysts |-> None]

NoLocals == [tickers |-> <<>>, start_date |-> EmptyDate, end_date |-> EmptyDate,
             selected_analysts |-> None, app |-> NoWorkflow]

NoPortfolio == [built |-> FALSE, cash |-> 0, margin_requirement |-> 0, margin_used |-> 0,
                positions |-> EmptyMap, realized_gains |-> EmptyMap]

NoRhf == [caller |-> "none", tickers |-> <<>>, start_date |-> EmptyDate, end_date |-> EmptyDate,
          selected_analysts |-> None]

NoData == [taken |-> FALSE, tickers |-> <<>>, portfolio |-> NoPortfolio,
           start_date |-> EmptyDate, end_date |-> EmptyDate]

NoResult == [kind |-> "none", keys |-> {}, decisions |-> NoneValue, analyst_signals |-> EmptyMap,
             error |-> "none", traceback |-> "none"]

\* ------------------------------------------------------- the .env file
\* A .env file: whether it exists, whether its bytes decode as UTF-8, and
\* its key=value lines in file order (key and value stripped).
NoFile == [exists |-> FALSE, decodable |-> TRUE, lines |-> <<>>]

EnvLine(key, value) == [key |-> key, value |-> value]

\* gui_api_keys: the six key fields of the form, in the order of the dict
ApiKeys == <<"OPENAI_API_KEY", "GROQ_API_KEY", "ANTHROPIC_API_KEY",
             "DEEPSEEK_API_KEY", "GOOGLE_API_KEY", "FINANCIAL_DATASETS_API_KEY">>

\* the fields has_api_key_configured looks at
LlmKeys == {"OPENAI_API_KEY", "GROQ_API_KEY", "ANTHROPIC_API_KEY",
            "GOOGLE_API_KEY", "DEEPSEEK_API_KEY"}

priority_keys == ApiKeys \o <<"OLLAMA_BASE_URL">>

\* f"your_{key.lower()}_here"
Placeholder(key) ==
    CASE key = "OPENAI_API_KEY"             -> "your_openai_api_key_here"
      [] key = "GROQ_API_KEY"               -> "your_groq_api_key_here"
      [] key = "ANTHROPIC_API_KEY"          -> "your_anthropic_api_key_here"
      [] key = "DEEPSEEK_API_KEY"           -> "your_deepseek_api_key_here"
      [] key = "GOOGLE_API_KEY"             -> "your_google_api_key_here"
      [] key = "FINANCIAL_DATASETS_API_KEY" -> "your_financial_datasets_api_key_here"
      [] OTHER                              -> "your_key_here"

\* value.startswith("your_"), for the texts of the model
StartsWithYour(value) ==
    value \in {"your_key_here"} \cup {Placeholder(ApiKeys[i]) : i \in 1..Len(ApiKeys)}

\* a dict in insertion order: a sequence of lines with distinct keys
HasKey(d, key) == \E i \in 1..Len(d) : d[i].key = key

Get(d, key) == d[CHOOSE i \in 1..Len(d) : d[i].key = key].value

\* d[key] = value
DictSet(d, key, value) ==
    IF HasKey(d, key)
    THEN [i \in 1..Len(d) |-> IF d[i].key = key THEN EnvLine(key, value) ELSE d[i]]
    ELSE Append(d, EnvLine(key, value))

RECURSIVE read_env(_, _)
\* existing_env after the loop over the file has taken its first n lines
read_env(lines, n) ==
    IF n = 0 THEN <<>>
    ELSE DictSet(read_env(lines, n - 1), lines[n].key, lines[n].value)

\* how many lines the loop can have taken when it ends: all of them, or,
\* when decoding raises UnicodeDecodeError (caught, a warning is printed),
\* those of the blocks read before the block that does not decode
ReadCounts(file) ==
    IF ~file.exists THEN {0}
    ELSE IF file.decodable THEN {Len(file.lines)}
    ELSE 0..Len(file.lines)

\* one round of the merge loop
merge_key(d, key, gui_value) ==
    IF gui_value # "" /\ ~StartsWithYour(gui_value)
    THEN DictSet(d, key, gui_value)
    ELSE IF ~HasKey(d, key) \/ Get(d, key) = "" \/ StartsWithYour(Get(d, key))
    THEN DictSet(d, key, Placeholder(key))
    ELSE d

RECURSIVE merge_keys(_, _, _)
\* the merge loop over the first n fields of gui_api_keys
merge_keys(d, api_keys, n) ==
    IF n = 0 THEN d
    ELSE merge_key(merge_keys(d, api_keys, n - 1), ApiKeys[n], api_keys[ApiKeys[n]])

\* get_ollama_base_url() when .env gives no OLLAMA_BASE_URL and neither
\* OLLAMA_HOST nor OLLAMA_PORT is set
DefaultOllamaUrl == "http://localhost:11434"

\* the OLLAMA_BASE_URL entry is added when it is missing
with_ollama(d) ==
    IF HasKey(d, "OLLAMA_BASE_URL") THEN d
    ELSE DictSet(d, "OLLAMA_BASE_URL", DefaultOllamaUrl)

\* env_content: the priority keys first, then the other keys of the dict
env_content(d) ==
    SelectSeq([i \in 1..Len(priority_keys) |->
                  EnvLine(priority_keys[i],
                          IF HasKey(d, priority_keys[i]) THEN Get(d, priority_keys[i]) ELSE "")],
              LAMBDA l : HasKey(d, l.key))
      \o SelectSeq(d, LAMBDA l : l.key \notin Range(priority_keys))

\* gui_launcher.HedgeFundGUI.create_env_file: the .env file it writes when
\* its reading loop took n lines of the file it found
create_env_file(file, api_keys, n) ==
    [exists |-> TRUE, decodable |-> TRUE,
     lines |-> env_content(with_ollama(merge_keys(read_env(file.lines, n), api_keys,
                                                  Len(ApiKeys))))]

\* gui_launcher.HedgeFundGUI.has_api_key_configured
has_api_key_configured(api_keys) == \E key \in LlmKeys : api_keys[key] # ""

\* the launcher form as a user with one OpenAI key and no .env file has it
BaselineForm ==
    [provider |-> "OpenAI",
     api_keys |-> [OPENAI_API_KEY |-> "sk-gui", GROQ_API_KEY |-> "",
                   ANTHROPIC_API_KEY |-> "", DEEPSEEK_API_KEY |-> "",
                   GOOGLE_API_KEY |-> "", FINANCIAL_DATASETS_API_KEY |-> ""],
     dotenv |-> NoFile]

\* HedgeFundGUI.__init__ of gui_main: is_running = False; no thread yet
\* started, running and callbacks count the threads started, the threads
\* that have not yet ended and the callbacks run; validated holds the widget
\* contents validate_inputs last accepted
NewGui(widgets) ==
    [is_running |-> FALSE, button |-> "normal", started |-> 0, running |-> 0,
     callbacks |-> 0, clicks |-> 0, edits |-> 0, validated |-> widgets]

Inputs ==
    [tickers : TickerTexts, cash : CashTexts, margin : MarginTexts,
     start : DateTexts, end : DateTexts,
     selected : {None} \cup {Some(l) : l \in DistinctSeqs(AnalystKeys, MaxSel)}]

\* the state before the first operation, for the request in entry, inp and
\* form
Fresh ==
    /\ pc = "idle"
    /\ call = NoCall
    /\ g = NoLocals
    /\ portfolio = NoPortfolio
    /\ rhf = NoRhf
    /\ agent = NoWorkflow
    /\ build_log = <<>>
    /\ active = {}
    /\ task = EmptyMap
    /\ writes = EmptyMap
    /\ started = {}
    /\ finished = {}
    /\ runs = EmptyMap
    /\ messages = <<>>
    /\ analyst_signals = EmptyMap
    /\ risk_input = [taken |-> FALSE, signals |-> EmptyMap]
    /\ data = NoData
    /\ exc = "none"
    /\ result = NoResult
    /\ raised = FALSE
    /\ rhf_result = NoResult
    /\ terminal = [taken |-> FALSE, content |-> NotAString]
    /\ progress = [running |-> FALSE, starts |-> 0, stops |-> 0]
    /\ gui_language = "none"
    /\ gui = NewGui(inp)
    /\ dotenv = form.dotenv

Init ==
    /\ entry \in {"direct", "wrapper", "launcher", "gui_main", "builder"}
    /\ analyst_nodes \in Registries
    /\ inp \in Inputs
    \* a direct caller passes a list of tickers and numbers
    /\ entry = "direct" => inp.tickers # "" /\ IsFloat(inp.cash)
    \* a caller of run_from_gui passes the numbers the forms start with
    /\ entry = "wrapper" => inp.tickers # "" /\ inp.cash = "100000" /\ inp.margin = "0.5"
    \* a GUI reads its check boxes: a list of the keys it displays
    /\ entry = "launcher" => ~inp.selected.isNone /\ Range(inp.selected.list) \subseteq LauncherKeys
    /\ entry = "gui_main" => ~inp.selected.isNone /\ Range(inp.selected.list) \subseteq DOMAIN analyst_nodes
    \* a caller of create_workflow passes nothing but the selection
    /\ entry = "builder" => /\ inp.tickers = "AAPL" /\ inp.cash = "100000" /\ inp.margin = "0.5"
                             /\ inp.start = EmptyDate /\ inp.end = EmptyDate
    \* the text "nan" is typed in the launcher form
    /\ entry # "launcher" => inp.cash # "nan" /\ inp.margin # "nan"
    /\ form = BaselineForm
    /\ Fresh

\* ------------------------------------------------------------ entry points
\* variant: the realized gains cover the first ticker only
NewPortfolio_first_ticker(tickers, initial_cash, margin_requirement) ==
    [built |-> TRUE,
     cash |-> initial_cash,
     margin_requirement |-> margin_requirement,
     margin_used |-> 0,
     positions |-> [t \in Range(tickers) |->
                      [long |-> 0, short |-> 0, long_cost_basis |-> 0,
                       short_cost_basis |-> 0, short_margin_used |-> 0]],
     realized_gains |-> [t \in {tickers[1]} |-> [long |-> 0, short |-> 0]]]

\* the portfolio dict built by run_hedge_fund_gui, gui_main and __main__
NewPortfolio(tickers, initial_cash, margin_requirement) ==
    [built |-> TRUE,
     cash |-> initial_cash,
     margin_requirement |-> margin_requirement,
     margin_used |-> 0,
     positions |-> [t \in Range(tickers) |->
                      [long |-> 0, short |-> 0, long_cost_basis |-> 0,
                       short_cost_basis |-> 0, short_margin_used |-> 0]],
     realized_gains |-> [t \in Range(tickers) |-> [long |-> 0, short |-> 0]]]

\* the keyword arguments built from the request
CallArgs(via, keys) ==
    [via |-> via, keys |-> keys,
     tickers |-> SplitTickers(inp.tickers),
     start_date |-> inp.start, end_date |-> inp.end,
     initial_cash |-> Float(inp.cash),
     margin_requirement |-> Float(inp.margin),
     selected_analysts |-> inp.selected]

\* a caller invokes run_hedge_fund_gui(...) directly
direct_call ==
    /\ pc = "idle" /\ entry = "direct"
    /\ call' = CallArgs("run_hedge_fund_gui", GuiParams)
    /\ pc' = "gui_enter"
    /\ UNCHANGED <<inputVars, otherVars, g, portfolio, rhf, agent, build_log, schedVars,
                   exc, result, raised, rhf_result, terminal, progress>>

\* a caller invokes run_from_gui(args_dict) with the documented keys
direct_run_from_gui ==
    /\ pc = "idle" /\ entry = "wrapper"
    /\ call' = CallArgs("run_from_gui", GuiParams)
    /\ pc' = "run_from_gui"
    /\ UNCHANGED <<inputVars, otherVars, g, portfolio, rhf, agent, build_log, schedVars,
                   exc, result, raised, rhf_result, terminal, progress>>

\* gui_launcher.HedgeFundGUI.validate_inputs
launcher_validate_inputs ==
    /\ inp.tickers # ""
    /\ Len(inp.selected.list) > 0
    /\ IsFloat(inp.cash) /\ ~FloatLe(Float(inp.cash), 0)
    /\ IsFloat(inp.margin)
    /\ ~(FloatLt(Float(inp.margin), 0) \/ FloatLt(100, Float(inp.margin)))
    /\ ~inp.start.empty => IsYMD(inp.start)
    /\ ~inp.end.empty => IsYMD(inp.end)

\* gui_launcher.HedgeFundGUI.run_analysis: validate, save the .env file,
\* require an API key unless the provider is Ollama, then start the thread
\* that calls run_from_gui(args_dict)
launcher_run_analysis ==
    /\ pc = "idle" /\ entry = "launcher"
    /\ IF ~launcher_validate_inputs
       THEN /\ dotenv' = dotenv
            /\ call' = call
            /\ pc' = "rejected"
       ELSE /\ \E n \in ReadCounts(dotenv) :
                   dotenv' = create_env_file(dotenv, form.api_keys, n)
            /\ IF form.provider # "Ollama" /\ ~has_api_key_configured(form.api_keys)
               THEN /\ call' = call
                    /\ pc' = "rejected"
               ELSE /\ call' = CallArgs("run_from_gui", LauncherArgKeys)
                    /\ pc' = "run_from_gui"
    /\ UNCHANGED <<inputVars, gui_language, gui, g, portfolio, rhf, agent, build_log, schedVars,
                   exc, result, raised, rhf_result, terminal, progress>>

\* variant: the envelope also has a "decisions" key
ErrorEnvelope_with_decisions(e) ==
    [kind |-> "error", keys |-> {"error", "traceback", "decisions"},
     decisions |-> NoneValue, analyst_signals |-> EmptyMap,
     error |-> e, traceback |-> e]

\* {"error": str(e), "traceback": traceback.format_exc()}
ErrorEnvelope(e) ==
    [kind |-> "error", keys |-> {"error", "traceback"},
     decisions |-> NoneValue, analyst_signals |-> EmptyMap,
     error |-> e, traceback |-> e]

\* what run_from_gui's except clause does with an exception
run_from_gui_except(e) == [raised |-> FALSE, result |-> ErrorEnvelope(e)]

\* run_from_gui: run_hedge_fund_gui(**args_dict) raises TypeError on a
\* keyword it does not accept; the except clause returns the envelope
run_from_gui ==
    /\ pc = "run_from_gui"
    /\ IF call.keys \subseteq GuiParams
       THEN /\ pc' = "gui_enter"
            /\ UNCHANGED <<result, raised>>
       ELSE /\ pc' = "returned"
            /\ result' = run_from_gui_except("TypeError").result
            /\ raised' = run_from_gui_except("TypeError").raised
    /\ UNCHANGED <<inputVars, otherVars, call, g, portfolio, rhf, agent, build_log, schedVars,
                   exc, rhf_result, terminal, progress>>

\* gui_main.HedgeFundGUI.validate_inputs
gui_main_validate_inputs ==
    /\ inp.tickers # ""
    /\ IsYMD(inp.start) /\ IsYMD(inp.end)
    /\ IsFloat(inp.cash) /\ IsFloat(inp.margin)
    /\ Len(inp.selected.list) > 0

\* variant: a Run click is never refused
gui_main_busy_never(o) == FALSE

\* "if self.is_running:" at the head of run_analysis
gui_main_busy(o) == o.is_running

\* run_analysis after its checks: is_running = True, the button disabled,
\* the thread started
thread_started(o, widgets) ==
    [o EXCEPT !.is_running = TRUE, !.button = "disabled",
              !.started = @ + 1, !.running = @ + 1, !.validated = widgets]

\* the thread returns after it has scheduled its callback with root.after
thread_ended(o, caller) ==
    IF caller = "gui_main" THEN [o EXCEPT !.running = @ - 1] ELSE o

\* gui_main.HedgeFundGUI.run_analysis, the first Run click: refuse when an
\* analysis is running, validate, then start the thread
gui_main_run_analysis ==
    /\ pc = "idle" /\ entry = "gui_main"
    /\ gui.clicks < MaxClicks
    /\ LET o == [gui EXCEPT !.clicks = @ + 1]
       IN  IF gui_main_busy(gui)
           THEN gui' = o /\ pc' = pc
           ELSE IF gui_main_validate_inputs
           THEN gui' = thread_started(o, inp) /\ pc' = "gm_thread"
           ELSE gui' = o /\ pc' = "rejected"
    /\ UNCHANGED <<inputVars, gui_language, dotenv, call, g, portfolio, rhf, agent,
                   build_log, schedVars, exc, result, raised, rhf_result, terminal,
                   progress>>

\* gui_main.HedgeFundGUI.run_analysis, a later Run click: it is refused
\* while is_running is set; otherwise it validates and starts a new thread,
\* whose run begins with fresh locals (the counters of the run start again)
gui_main_run_again ==
    /\ pc # "idle" /\ entry = "gui_main"
    /\ gui.clicks < MaxClicks
    /\ LET o == [gui EXCEPT !.clicks = @ + 1]
       IN  IF gui_main_busy(gui) \/ ~gui_main_validate_inputs
           THEN /\ gui' = o
                /\ pc' = IF gui_main_busy(gui) THEN pc ELSE "rejected"
                /\ UNCHANGED <<portfolio, rhf, agent, build_log, schedVars, exc,
                               rhf_result, terminal, progress>>
           ELSE /\ gui' = thread_started(o, inp)
                /\ pc' = "gm_thread"
                /\ portfolio' = NoPortfolio
                /\ rhf' = NoRhf
                /\ agent' = NoWorkflow
                /\ build_log' = <<>>
                /\ active' = {} /\ task' = EmptyMap /\ writes' = EmptyMap
                /\ started' = {} /\ finished' = {} /\ runs' = EmptyMap
                /\ messages' = <<>> /\ analyst_signals' = EmptyMap
                /\ risk_input' = [taken |-> FALSE, signals |-> EmptyMap]
                /\ data' = NoData
                /\ exc' = "none"
                /\ rhf_result' = NoResult
                /\ terminal' = [taken |-> FALSE, content |-> NotAString]
                /\ progress' = [running |-> FALSE, starts |-> 0, stops |-> 0]
    /\ UNCHANGED <<inputVars, gui_language, dotenv, call, g, result, raised>>

\* the widget contents after the user has changed one input widget
EditsOf(w) ==
    {[w EXCEPT !.tickers = x] : x \in TickerTexts \ {w.tickers}}
      \cup {[w EXCEPT !.cash = x] : x \in CashTexts \ {w.cash}}
      \cup {[w EXCEPT !.margin = x] : x \in MarginTexts \ {w.margin}}
      \cup {[w EXCEPT !.start = x] : x \in DateTexts \ {w.start}}
      \cup {[w EXCEPT !.end = x] : x \in DateTexts \ {w.end}}
      \cup {[w EXCEPT !.selected = Some(l)] :
               l \in DistinctSeqs(DOMAIN analyst_nodes, 1) \ {w.selected.list}}

\* the user changes an input widget after run_analysis has started the
\* thread and before the thread reads the widgets
gui_main_edit ==
    /\ pc = "gm_thread" /\ entry = "gui_main"
    /\ gui.edits < MaxEdits
    /\ inp' \in EditsOf(inp)
    /\ gui' = [gui EXCEPT !.edits = @ + 1]
    /\ UNCHANGED <<entry, analyst_nodes, form, gui_language, dotenv, pc, call, g,
                   portfolio, rhf, agent, build_log, schedVars, exc, result, raised,
                   rhf_result, terminal, progress>>

\* gui_main.HedgeFundGUI._run_analysis_thread up to the run_hedge_fund call:
\* it reads the widgets; float() of a text that is no number raises
\* ValueError, which the except clause hands to _analysis_failed
gui_main_thread ==
    /\ pc = "gm_thread"
    /\ IF IsFloat(inp.cash) /\ IsFloat(inp.margin)
       THEN /\ portfolio' = NewPortfolio(SplitTickers(inp.tickers), Float(inp.cash),
                                         Float(inp.margin))
            /\ rhf' = [caller |-> "gui_main", tickers |-> SplitTickers(inp.tickers),
                       start_date |-> inp.start, end_date |-> inp.end,
                       selected_analysts |-> inp.selected]
            /\ pc' = "rhf_enter"
            /\ UNCHANGED <<gui, exc>>
       ELSE /\ exc' = "ValueError"
            /\ gui' = thread_ended(gui, "gui_main")
            /\ pc' = "gm_failed"
            /\ UNCHANGED <<portfolio, rhf>>
    /\ UNCHANGED <<inputVars, gui_language, dotenv, call, g, agent, build_log, schedVars,
                   result, raised, rhf_result, terminal, progress>>

\* ------------------------------------------------------ run_hedge_fund_gui
BuildEntry(site, sel, wf) == [site |-> site, sel |-> sel, ok |-> (wf.err = "none")]

\* a caller (the command line of main.py) builds a workflow with
\* create_workflow(selected_analysts) and compiles it
call_create_workflow ==
    /\ pc = "idle" /\ entry = "builder"
    /\ LET wf == create_workflow(inp.selected, analyst_nodes)
       IN  /\ build_log' = <<BuildEntry("caller", inp.selected, wf)>>
           /\ g' = [g EXCEPT !.selected_analysts = inp.selected,
                             !.app = IF wf.err = "none" THEN wf ELSE NoWorkflow]
           /\ exc' = wf.err
    /\ pc' = "built"
    /\ UNCHANGED <<inputVars, otherVars, call, portfolio, rhf, agent, schedVars,
                   result, raised, rhf_result, terminal, progress>>

\* the minimal default set of the fallback build
default_analysts == <<"warren_buffett", "peter_lynch", "technical_analyst">>

\* variant: the selection is used as passed
gui_resolve_analysts_keep(selected_analysts, reg) ==
    IF selected_analysts.isNone THEN Some(AnalystOrder(reg)) ELSE selected_analysts

\* an empty or missing selection becomes every analyst of ANALYST_ORDER
gui_resolve_analysts(selected_analysts, reg) ==
    IF ~Truthy(selected_analysts) THEN Some(AnalystOrder(reg)) ELSE selected_analysts

\* variant: only the start date is checked
gui_date_error_start_only(start_date, end_date) ==
    IF ~start_date.empty /\ ~IsYMD(start_date) THEN "ValueError" ELSE "none"

\* date check of run_hedge_fund_gui: the error it raises, "none" if none
gui_date_error(start_date, end_date) ==
    IF ~start_date.empty /\ ~IsYMD(start_date) THEN "ValueError"
    ELSE IF ~end_date.empty /\ ~IsYMD(end_date) THEN "ValueError"
    ELSE "none"

\* run_hedge_fund_gui from its first statement to the date defaults
gui_prepare ==
    /\ pc = "gui_enter"
    /\ LET sel == gui_resolve_analysts(call.selected_analysts, analyst_nodes)
           err == gui_date_error(call.start_date, call.end_date)
           endd == IF call.end_date.empty THEN Today ELSE call.end_date
           startd == IF call.start_date.empty THEN ThreeMonthsBefore(endd) ELSE call.start_date
       IN  IF err # "none"
           THEN /\ g' = [g EXCEPT !.tickers = call.tickers, !.selected_analysts = sel]
                /\ exc' = err
                /\ pc' = "gui_except"
           ELSE /\ g' = [g EXCEPT !.tickers = call.tickers, !.selected_analysts = sel,
                                  !.start_date = startd, !.end_date = endd]
                /\ exc' = exc
                /\ pc' = "gui_build"
    /\ UNCHANGED <<inputVars, otherVars, call, portfolio, rhf, agent, build_log, schedVars,
                   result, raised, rhf_result, terminal, progress>>

\* variant: the fallback build uses every registered analyst
gui_build_outcome_all(selected_analysts, reg) ==
    LET wf == create_workflow(selected_analysts, reg)
        fb == create_workflow(None, reg)
    IN  IF wf.err = "none"
        THEN [app |-> wf, selected_analysts |-> selected_analysts, err |-> "none",
              log |-> <<BuildEntry("gui", selected_analysts, wf)>>]
        ELSE [app |-> fb, selected_analysts |-> Some(AnalystOrder(reg)), err |-> fb.err,
              log |-> <<BuildEntry("gui", selected_analysts, wf),
                        BuildEntry("fallback", Some(AnalystOrder(reg)), fb)>>]

\* variant: the fallback build uses the registered keys of the selection
gui_build_outcome_valid_keys(selected_analysts, reg) ==
    LET wf == create_workflow(selected_analysts, reg)
        valid == Some(SelectSeq(selected_analysts.list, LAMBDA k : k \in DOMAIN reg))
        fb == create_workflow(valid, reg)
    IN  IF wf.err = "none"
        THEN [app |-> wf, selected_analysts |-> selected_analysts, err |-> "none",
              log |-> <<BuildEntry("gui", selected_analysts, wf)>>]
        ELSE [app |-> fb, selected_analysts |-> valid, err |-> fb.err,
              log |-> <<BuildEntry("gui", selected_analysts, wf),
                        BuildEntry("fallback", valid, fb)>>]

\* the build of run_hedge_fund_gui: one attempt with the selection and, when
\* it raises, one attempt with default_analysts inside the except clause
gui_build_outcome(selected_analysts, reg) ==
    LET wf == create_workflow(selected_analysts, reg)
        fb == create_workflow(Some(default_analysts), reg)
    IN  IF wf.err = "none"
        THEN [app |-> wf, selected_analysts |-> selected_analysts, err |-> "none",
              log |-> <<BuildEntry("gui", selected_analysts, wf)>>]
        ELSE [app |-> fb, selected_analysts |-> Some(default_analysts), err |-> fb.err,
              log |-> <<BuildEntry("gui", selected_analysts, wf),
                        BuildEntry("fallback", Some(default_analysts), fb)>>]

gui_build ==
    /\ pc = "gui_build"
    /\ LET out == gui_build_outcome(g.selected_analysts, analyst_nodes)
       IN  /\ build_log' = build_log \o out.log
           /\ IF out.err = "none"
              THEN /\ g' = [g EXCEPT !.app = out.app, !.selected_analysts = out.selected_analysts]
                   /\ exc' = exc
                   /\ pc' = "gui_portfolio"
              ELSE /\ g' = g
                   /\ exc' = out.err
                   /\ pc' = "gui_except"
    /\ UNCHANGED <<inputVars, otherVars, call, portfolio, rhf, agent, schedVars,
                   result, raised, rhf_result, terminal, progress>>

\* run_hedge_fund_gui: build the portfolio and call run_hedge_fund
gui_call_run_hedge_fund ==
    /\ pc = "gui_portfolio"
    /\ portfolio' = NewPortfolio(g.tickers, call.initial_cash, call.margin_requirement)
    /\ rhf' = [caller |-> "gui", tickers |-> g.tickers,
               start_date |-> g.start_date, end_date |-> g.end_date,
               selected_analysts |-> g.selected_analysts]
    /\ pc' = "rhf_enter"
    /\ UNCHANGED <<inputVars, otherVars, call, g, agent, build_log, schedVars,
                   exc, result, raised, rhf_result, terminal, progress>>

\* ---------------------------------------------------------- run_hedge_fund
\* the state handed to agent.invoke
HumanMessage == [name |-> "human", content |-> PlainText]

initial_messages == <<HumanMessage>>

\* variant: the signals map is not reset for the run
initial_analyst_signals_stale ==
    [k \in {"stale_agent"} |-> [t \in {"AAPL"} |-> [signal |-> "bullish", confidence |-> 0]]]

initial_analyst_signals == EmptyMap

\* variant: the stages get a portfolio of their own and the dates swapped
initial_data_fresh(args, p) ==
    [taken |-> TRUE, tickers |-> args.tickers,
     portfolio |-> [p EXCEPT !.cash = 0],
     start_date |-> args.end_date, end_date |-> args.start_date]

\* the "data" of the state handed to agent.invoke: the tickers, the caller's
\* portfolio and the two dates
initial_data(args, p) ==
    [taken |-> TRUE, tickers |-> args.tickers, portfolio |-> p,
     start_date |-> args.start_date, end_date |-> args.end_date]

\* variant: run_hedge_fund builds the plan of every registered analyst
run_hedge_fund_selection_all(selected_analysts) == None

\* "if selected_analysts: create_workflow(selected_analysts) else create_workflow()"
run_hedge_fund_selection(selected_analysts) ==
    IF Truthy(selected_analysts) THEN selected_analysts ELSE None

\* the except clause reached when run_hedge_fund raises to its caller
CallerExcept(caller) == IF caller = "gui" THEN "gui_except" ELSE "gm_failed"

\* progress.start()
progress_start(p) == [p EXCEPT !.running = TRUE, !.starts = @ + 1]

\* variant: the tracker is left as it is
progress_stop_skipped(p) == p

\* progress.stop() in the finally clause of run_hedge_fund
progress_stop(p) == [p EXCEPT !.running = FALSE, !.stops = @ + 1]

\* run_hedge_fund: progress.start(), build and compile, first superstep
run_hedge_fund_start ==
    /\ pc = "rhf_enter"
    /\ LET arg == run_hedge_fund_selection(rhf.selected_analysts)
           wf == create_workflow(arg, analyst_nodes)
       IN  /\ build_log' = Append(build_log, BuildEntry("run_hedge_fund", arg, wf))
           /\ IF wf.err = "none"
              THEN /\ agent' = wf
                   /\ messages' = initial_messages
                   /\ analyst_signals' = initial_analyst_signals
                   /\ data' = initial_data(rhf, portfolio)
                   /\ active' = {wf.entry}
                   /\ task' = [n \in {wf.entry} |-> "pending"]
                   /\ runs' = [n \in Range(wf.nodes) |-> 0]
                   /\ progress' = progress_start(progress)
                   /\ exc' = exc
                   /\ gui' = gui
                   /\ pc' = "invoke"
              ELSE /\ UNCHANGED <<agent, messages, analyst_signals, data, active, task, runs>>
                   /\ progress' = progress_stop(progress_start(progress))
                   /\ exc' = wf.err
                   /\ gui' = thread_ended(gui, rhf.caller)
                   /\ pc' = CallerExcept(rhf.caller)
    /\ UNCHANGED <<inputVars, gui_language, dotenv, call, g, portfolio, rhf, writes, started, finished,
                   risk_input, result, raised, rhf_result, terminal>>

\* ------------------------------------------------- agent.invoke (LangGraph)
\* nodes triggered by the edges leaving the nodes of the finished superstep
Successors(wf, A) == {n \in Range(wf.nodes) : \E m \in A : <<m, n>> \in wf.edges}

\* the signal an analyst node produces for every ticker
Confidence(n) ==
    CASE n = "warren_buffett_agent"    -> 10
      [] n = "peter_lynch_agent"       -> 20
      [] n = "technical_analyst_agent" -> 30
      [] OTHER                         -> 40

AnalystOutput(n, tickers) ==
    [t \in Range(tickers) |-> [signal |-> "bullish", confidence |-> Confidence(n)]]

RiskOutput(tickers) ==
    [t \in Range(tickers) |-> [signal |-> "limit", confidence |-> 0]]

\* a node of the current superstep starts; the risk node reads the signals
node_begin(n) ==
    /\ pc = "invoke"
    /\ n \in active /\ task[n] = "pending"
    /\ task' = [task EXCEPT ![n] = "running"]
    /\ started' = started \cup {n}
    /\ runs' = [runs EXCEPT ![n] = @ + 1]
    /\ risk_input' = IF n = "risk_management_agent"
                     THEN [taken |-> TRUE, signals |-> analyst_signals]
                     ELSE risk_input
    /\ UNCHANGED <<inputVars, otherVars, pc, call, g, portfolio, rhf, agent, build_log, active,
                   writes, finished, messages, analyst_signals, data, exc, result, raised,
                   rhf_result, terminal, progress>>

NodeDone(n, msgs) ==
    /\ task' = [task EXCEPT ![n] = "done"]
    /\ finished' = finished \cup {n}
    /\ writes' = Put(writes, n, msgs)
    /\ UNCHANGED <<inputVars, otherVars, pc, call, g, portfolio, rhf, agent, build_log, active,
                   started, runs, messages, risk_input, data, exc, result, raised,
                   rhf_result, terminal, progress>>

\* start(state) returns the state unchanged
start_return ==
    /\ pc = "invoke"
    /\ "start_node" \in active /\ task["start_node"] = "running"
    /\ analyst_signals' = analyst_signals
    /\ NodeDone("start_node", <<>>)

\* an analyst node stores its signals under its own agent key
analyst_return(n) ==
    /\ pc = "invoke"
    /\ n \in active /\ n \in AnalystNodesOf(agent) /\ task[n] = "running"
    /\ analyst_signals' = Put(analyst_signals, n, AnalystOutput(n, rhf.tickers))
    /\ NodeDone(n, <<[name |-> n,
                      content |-> JsonText([kind |-> "signal",
                                            map |-> AnalystOutput(n, rhf.tickers)])]>>)

\* the risk node stores its limits under "risk_management_agent"
risk_return ==
    /\ pc = "invoke"
    /\ "risk_management_agent" \in active /\ task["risk_management_agent"] = "running"
    /\ analyst_signals' = Put(analyst_signals, "risk_management_agent", RiskOutput(rhf.tickers))
    /\ NodeDone("risk_management_agent",
                <<[name |-> "risk_management_agent",
                   content |-> JsonText([kind |-> "signal", map |-> RiskOutput(rhf.tickers)])]>>)

\* the portfolio manager emits the decision payload as its message
portfolio_return ==
    /\ pc = "invoke"
    /\ "portfolio_manager" \in active /\ task["portfolio_manager"] = "running"
    /\ analyst_signals' = analyst_signals
    /\ \E payload \in Payloads(rhf.tickers) :
         NodeDone("portfolio_manager", <<[name |-> "portfolio_manager", content |-> payload]>>)

\* an analyst node waits for an answer of its model or data provider that
\* never comes: it neither returns nor raises, and nothing interrupts it
analyst_hang(n) ==
    /\ pc = "invoke"
    /\ n \in active /\ n \in AnalystNodesOf(agent) /\ task[n] = "running"
    /\ task' = [task EXCEPT ![n] = "hung"]
    /\ UNCHANGED <<inputVars, otherVars, pc, call, g, portfolio, rhf, agent, build_log, active,
                   writes, started, finished, runs, messages, analyst_signals,
                   risk_input, data, exc, result, raised, rhf_result, terminal, progress>>

\* an analyst, risk or portfolio node raises: invoke raises
node_raise(n) ==
    /\ pc = "invoke"
    /\ n \in active /\ n # "start_node" /\ task[n] = "running"
    /\ exc' = "ExecutionError"
    /\ pc' = "rhf_raise"
    /\ UNCHANGED <<inputVars, otherVars, call, g, portfolio, rhf, agent, build_log, schedVars,
                   result, raised, rhf_result, terminal, progress>>

\* messages written in the superstep, in node order
RECURSIVE StepMessages(_, _, _)
StepMessages(nodes, w, i) ==
    IF i > Len(nodes) THEN <<>>
    ELSE (IF nodes[i] \in DOMAIN w THEN w[nodes[i]] ELSE <<>>) \o StepMessages(nodes, w, i + 1)

\* every node of the superstep has returned: apply the writes and trigger
\* the successors, or finish when there are none
next_superstep ==
    /\ pc = "invoke"
    /\ \A n \in active : task[n] = "done"
    /\ messages' = messages \o StepMessages(agent.nodes, writes, 1)
    /\ writes' = EmptyMap
    /\ LET next == Successors(agent, active)
       IN  /\ active' = next
           /\ task' = [n \in next |-> "pending"]
           /\ pc' = IF next = {} THEN "rhf_return" ELSE "invoke"
    /\ UNCHANGED <<inputVars, otherVars, call, g, portfolio, rhf, agent, build_log, started,
                   finished, runs, analyst_signals, risk_input, data, exc, result,
                   raised, rhf_result, terminal, progress>>

\* variant: the first message is taken
final_content_first(msgs) == msgs[1].content

\* final_state["messages"][-1].content
final_content(msgs) == msgs[Len(msgs)].content

\* variant: a failed parse is reported under an "error" key
run_result_with_diagnostic(msgs, signals) ==
    LET d == parse_hedge_fund_response(final_content(msgs))
    IN  [kind |-> "result",
         keys |-> IF d = NoneValue THEN {"decisions", "analyst_signals", "error"}
                  ELSE {"decisions", "analyst_signals"},
         decisions |-> d,
         analyst_signals |-> signals,
         error |-> IF d = NoneValue THEN "ParseError" ELSE "none",
         traceback |-> "none"]

\* the dict run_hedge_fund returns
run_result(msgs, signals) ==
    [kind |-> "result", keys |-> {"decisions", "analyst_signals"},
     decisions |-> parse_hedge_fund_response(final_content(msgs)),
     analyst_signals |-> signals,
     error |-> "none", traceback |-> "none"]

\* run_hedge_fund returns its result; finally: progress.stop()
run_hedge_fund_return ==
    /\ pc = "rhf_return"
    /\ terminal' = [taken |-> TRUE, content |-> final_content(messages)]
    /\ rhf_result' = run_result(messages, analyst_signals)
    /\ progress' = progress_stop(progress)
    /\ pc' = IF rhf.caller = "gui" THEN "gui_report" ELSE "gm_completed"
    /\ gui' = thread_ended(gui, rhf.caller)
    /\ UNCHANGED <<inputVars, gui_language, dotenv, call, g, portfolio, rhf, agent, build_log, schedVars,
                   exc, result, raised>>

\* invoke raised; finally: progress.stop(); the exception reaches the caller
run_hedge_fund_raise ==
    /\ pc = "rhf_raise"
    /\ progress' = progress_stop(progress)
    /\ pc' = CallerExcept(rhf.caller)
    /\ gui' = thread_ended(gui, rhf.caller)
    /\ UNCHANGED <<inputVars, gui_language, dotenv, call, g, portfolio, rhf, agent, build_log, schedVars,
                   exc, result, raised, rhf_result, terminal>>

\* ------------------------------------------------------------ report step
\* environment of the report: GUI_LANGUAGE, the language of the GUI
\* configuration file ("nofile" if there is none), a Chinese system locale,
\* and whether the report file can be written
EnvLanguages == {"", "en", "zh", "fr"}

ConfigLanguages == {"nofile", "", "en", "zh", "fr"}

detect_gui_language(env_language, config_language, system_zh) ==
    IF env_language \in {"en", "zh"} THEN env_language
    ELSE IF config_language \notin {"nofile", ""} THEN config_language
    ELSE IF system_zh THEN "zh"
    ELSE "en"

\* bool(decisions)
DecisionsTruthy(d) == d.kind = "array" \/ (d.kind = "object" /\ DOMAIN d.map # {})

\* print_trading_output -> save_trading_output_html: the exception it raises,
\* "none" if the report is written
print_trading_output(res, language, writable) ==
    IF language \notin {"en", "zh"} THEN "KeyError"
    ELSE IF DecisionsTruthy(res.decisions) /\ res.decisions.kind # "object" THEN "AttributeError"
    ELSE IF ~writable THEN "OSError"
    ELSE "none"

\* run_hedge_fund_gui after run_hedge_fund returned: report, then return
gui_report ==
    /\ pc = "gui_report"
    /\ \E el \in EnvLanguages, cl \in ConfigLanguages, zh \in BOOLEAN, writable \in BOOLEAN :
         LET lang == detect_gui_language(el, cl, zh)
             err == print_trading_output(rhf_result, lang, writable)
         IN  /\ gui_language' = lang
             /\ IF err = "none"
                THEN /\ result' = rhf_result
                     /\ exc' = exc
                     /\ pc' = "returned"
                ELSE /\ result' = result
                     /\ exc' = err
                     /\ pc' = "gui_except"
    /\ UNCHANGED <<inputVars, gui, dotenv, call, g, portfolio, rhf, agent, build_log, schedVars,
                   raised, rhf_result, terminal, progress>>

\* variant: the except clause re-raises
gui_except_clause_reraise(e) == [raised |-> TRUE, result |-> NoResult]

\* the except clause of run_hedge_fund_gui: return the envelope
gui_except_clause(e) == [raised |-> FALSE, result |-> ErrorEnvelope(e)]

\* an exception inside run_hedge_fund_gui's try block reaches its except
\* clause (and, were it to leave the function, that of run_from_gui)
gui_except ==
    /\ pc = "gui_except"
    /\ LET inner == gui_except_clause(exc)
           outer == IF inner.raised /\ call.via = "run_from_gui"
                    THEN run_from_gui_except(exc) ELSE inner
       IN  /\ result' = outer.result
           /\ raised' = outer.raised
    /\ exc' = "none"
    /\ pc' = "returned"
    /\ UNCHANGED <<inputVars, otherVars, call, g, portfolio, rhf, agent, build_log, schedVars,
                   rhf_result, terminal, progress>>

\* _analysis_completed: is_running = False, the Run button enabled
analysis_completed(o) ==
    [o EXCEPT !.is_running = FALSE, !.button = "normal", !.callbacks = @ + 1]

\* variant: the failure callback leaves the window busy
analysis_failed_stays_busy(o) == [o EXCEPT !.callbacks = @ + 1]

\* _analysis_failed: is_running = False, the Run button enabled
analysis_failed(o) ==
    [o EXCEPT !.is_running = FALSE, !.button = "normal", !.callbacks = @ + 1]

\* gui_main._analysis_completed: keep the result
gui_main_analysis_completed ==
    /\ pc = "gm_completed"
    /\ result' = rhf_result
    /\ gui' = analysis_completed(gui)
    /\ pc' = "gm_done"
    /\ UNCHANGED <<inputVars, gui_language, dotenv, call, g, portfolio, rhf, agent, build_log, schedVars,
                   exc, raised, rhf_result, terminal, progress>>

\* gui_main._run_analysis_thread's except clause and _analysis_failed
gui_main_analysis_failed ==
    /\ pc = "gm_failed"
    /\ exc' = "none"
    /\ gui' = analysis_failed(gui)
    /\ pc' = "gm_done"
    /\ UNCHANGED <<inputVars, gui_language, dotenv, call, g, portfolio, rhf, agent, build_log, schedVars,
                   result, raised, rhf_result, terminal, progress>>

\* ------------------------------------------------------------ specification
AllNodes == {AgentName(k) : k \in AnalystKeys}
                \cup {"start_node", "risk_management_agent", "portfolio_manager"}

Next ==
    \/ direct_call
    \/ direct_run_from_gui
    \/ launcher_run_analysis
    \/ run_from_gui
    \/ call_create_workflow
    \/ gui_main_run_analysis
    \/ gui_main_thread
    \/ gui_prepare
    \/ gui_build
    \/ gui_call_run_hedge_fund
    \/ run_hedge_fund_start
    \/ \E n \in AllNodes : node_begin(n)
    \/ start_return
    \/ \E n \in AllNodes : analyst_return(n)
    \/ risk_return
    \/ portfolio_return
    \/ \E n \in AllNodes : node_raise(n)
    \/ next_superstep
    \/ run_hedge_fund_return
    \/ run_hedge_fund_raise
    \/ gui_report
    \/ gui_except
    \/ gui_main_analysis_completed
    \/ gui_main_analysis_failed

Spec == Init /\ [][Next]_vars

\* The program in an environment where the answer an analyst node waits for
\* may never come, for one request form: one ticker, the numbers the forms
\* start with, and both date fields empty or both "2024-05-31".
HangInit ==
    /\ Init
    /\ inp.tickers = "AAPL" /\ inp.cash = "100000" /\ inp.margin = "0.5"
    /\ inp.start \in {EmptyDate, DateText(2024, 5, 31, "-", TRUE)} /\ inp.end = inp.start

NextHang ==
    \/ Next
    \/ \E n \in AllNodes : analyst_hang(n)

HangSpec == HangInit /\ [][NextHang]_vars

\* The gui_main window with its user: one ticker, the numbers the form
\* starts with, both dates "2024-05-31" and one analyst ticked; the user
\* clicks Run again and edits a widget while a thread is starting.
GuiMainInit ==
    /\ Init
    /\ entry = "gui_main"
    /\ inp.tickers = "AAPL" /\ inp.cash = "100000" /\ inp.margin = "0.5"
    /\ inp.start = DateText(2024, 5, 31, "-", TRUE) /\ inp.end = inp.start
    /\ Len(inp.selected.list) = 1

\* the steps of the thread and of the Tk event loop running a callback
GuiMainProgram ==
    \/ gui_main_thread
    \/ run_hedge_fund_start
    \/ \E n \in AllNodes : node_begin(n)
    \/ start_return
    \/ \E n \in AllNodes : analyst_return(n)
    \/ risk_return
    \/ portfolio_return
    \/ \E n \in AllNodes : node_raise(n)
    \/ next_superstep
    \/ run_hedge_fund_return
    \/ run_hedge_fund_raise
    \/ gui_main_analysis_completed
    \/ gui_main_analysis_failed

NextGuiMain ==
    \/ gui_main_run_analysis
    \/ gui_main_run_again
    \/ gui_main_edit
    \/ GuiMainProgram

\* values typed in an API key field of the launcher
KeyFieldTexts == {"", "sk-gui", "your_key_here"}

\* key=value lines of a .env file
EnvLines ==
    {EnvLine("OPENAI_API_KEY", "sk-old"),
     EnvLine("OPENAI_API_KEY", "your_openai_api_key_here"),
     EnvLine("FINANCIAL_DATASETS_API_KEY", "fd-old"),
     EnvLine("DATABASE_URL", "postgres")}

\* the .env files of at most MaxLines lines, in UTF-8 or in another
\* encoding
EnvFiles ==
    {NoFile} \cup
    [exists : {TRUE}, decodable : BOOLEAN,
     lines : UNION {[1..k -> EnvLines] : k \in 0..MaxLines}]

LauncherForms ==
    {[provider |-> p,
      api_keys |-> [BaselineForm.api_keys EXCEPT !.OPENAI_API_KEY = o,
                                                 !.FINANCIAL_DATASETS_API_KEY = f],
      dotenv |-> file] :
        p \in {"OpenAI", "Ollama"}, o \in KeyFieldTexts, f \in {"", "fd-gui"},
        file \in EnvFiles}

\* the fields the launcher form starts with, one analyst ticked
BaselineInput ==
    [tickers |-> "AAPL", cash |-> "100000", margin |-> "0.5",
     start |-> EmptyDate, end |-> EmptyDate, selected |-> Some(<<"warren_buffett">>)]

\* The launcher window: a Run click on every filling of the input fields
\* with no .env file, and on the starting fields with every .env file.
LauncherInit ==
    /\ entry = "launcher"
    /\ analyst_nodes \in Registries
    /\ inp \in Inputs
    /\ ~inp.selected.isNone /\ Range(inp.selected.list) \subseteq LauncherKeys
    /\ Len(inp.selected.list) <= 1
    /\ form \in LauncherForms
    /\ inp = BaselineInput \/ form.dotenv = NoFile
    /\ Fresh

NextLauncher ==
    \/ launcher_run_analysis
    \/ run_from_gui

LauncherSpec == LauncherInit /\ [][NextLauncher]_vars

\* a started thread keeps running, every call it makes returns or raises,
\* and the event loop runs the callbacks scheduled with root.after
GuiMainSpec == GuiMainInit /\ [][NextGuiMain]_vars /\ WF_vars(GuiMainProgram)

\* ------------------------------------------------------------------ claims
Running(n) == n \in active /\ task[n] # "done"

\* C1: the risk node does not begin until every selected analyst node has
\* returned: whenever the risk node has started, every analyst node of the
\* plan has finished and none is pending or running.
C1_RiskAfterAllAnalysts ==
    "risk_management_agent" \in started =>
        \A a \in AnalystNodesOf(agent) : a \in finished /\ ~Running(a)

\* the risk node is running in a plan with at least two analysts
C1_Witness ==
    /\ pc = "invoke"
    /\ "risk_management_agent" \in active
    /\ task["risk_management_agent"] = "running"
    /\ Cardinality(AnalystNodesOf(agent)) >= 2

\* C2: the map handed to the risk stage has exactly one entry per selected
\* analyst, each equal to that analyst's output, and from then on the
\* analyst entries of the shared map stay what the risk stage saw.
C2_NoLostWrite ==
    risk_input.taken =>
        /\ DOMAIN risk_input.signals = AnalystNodesOf(agent)
        /\ Cardinality(DOMAIN risk_input.signals) = Cardinality(AnalystNodesOf(agent))
        /\ \A a \in AnalystNodesOf(agent) :
              risk_input.signals[a] = AnalystOutput(a, rhf.tickers)
        /\ (DOMAIN analyst_signals) \ {"risk_management_agent"} = DOMAIN risk_input.signals
        /\ \A a \in DOMAIN risk_input.signals : analyst_signals[a] = risk_input.signals[a]

\* the risk stage has taken its input from three analysts
C2_Witness ==
    /\ risk_input.taken
    /\ Cardinality(DOMAIN risk_input.signals) = 3
    /\ "risk_management_agent" \in finished

LastPortfolioMessage(c) ==
    \E i \in 1..Len(messages) :
        /\ messages[i].name = "portfolio_manager"
        /\ messages[i].content = c
        /\ \A j \in (i + 1)..Len(messages) : messages[j].name # "portfolio_manager"

\* C3: the portfolio manager does not begin before the risk node has
\* returned, it runs at most once, and the payload run_hedge_fund parses is
\* the last message the portfolio manager emitted.
C3_PortfolioAfterRisk ==
    /\ "portfolio_manager" \in started =>
          "risk_management_agent" \in finished /\ ~Running("risk_management_agent")
    /\ "portfolio_manager" \in DOMAIN runs => runs["portfolio_manager"] <= 1
    /\ terminal.taken => LastPortfolioMessage(terminal.content)

\* run_hedge_fund has parsed a well-formed payload of the portfolio manager
C3_Witness ==
    /\ terminal.taken
    /\ terminal.content.wellformed
    /\ runs["portfolio_manager"] = 1

\* C4: run_hedge_fund_gui and run_from_gui never raise: a call that has
\* returned delivered either the result of run_hedge_fund or an envelope
\* with an error and a traceback, and it is the envelope whenever
\* run_hedge_fund did not return a result.
C4_FacadeNeverRaises ==
    /\ ~raised
    /\ pc = "returned" =>
          \/ result.kind = "result" /\ rhf_result.kind = "result"
          \/ result.kind = "error" /\ result.error # "none" /\ result.traceback # "none"
    /\ (pc = "returned" /\ rhf_result.kind = "none") => result.kind = "error"

\* a node raised during execution and the direct call returned the envelope
C4_Witness ==
    /\ pc = "returned"
    /\ call.via = "run_hedge_fund_gui"
    /\ result.kind = "error"
    /\ result.error = "ExecutionError"

Malformed(c) == c.type # "str" \/ ~c.wellformed

\* C5 (as claimed): for a terminal payload that is malformed or not a
\* string, parse_hedge_fund_response yields None and the value
\* run_hedge_fund_gui returns still carries the analyst_signals map the
\* stages produced.
C5_ParseErrorKeepsSignals ==
    (terminal.taken /\ Malformed(terminal.content)) =>
        /\ rhf_result.decisions = NoneValue
        /\ pc = "returned" =>
              /\ result.kind = "result"
              /\ result.decisions = NoneValue
              /\ result.analyst_signals = analyst_signals

Fallbacks == {i \in 1..Len(build_log) : build_log[i].site = "fallback"}

ListOf(selected_analysts) ==
    IF selected_analysts.isNone THEN AnalystOrder(analyst_nodes) ELSE selected_analysts.list

ExpectedEdges(names) ==
    {<<"start_node", a>> : a \in names}
        \cup {<<a, "risk_management_agent">> : a \in names}
        \cup {<<"risk_management_agent", "portfolio_manager">>, <<"portfolio_manager", "END">>}

PlanShape(wf, sel) ==
    LET names == {AgentName(sel[i]) : i \in 1..Len(sel)}
    IN  /\ Len(wf.nodes) = 1 + Len(sel) + 2
        /\ Cardinality(Range(wf.nodes)) = 1 + Len(sel) + 2
        /\ Range(wf.nodes) = {"start_node", "risk_management_agent", "portfolio_manager"} \cup names
        /\ wf.edges = ExpectedEdges(names)
        /\ wf.entry = "start_node"

\* C7: a plan built from N >= 1 distinct registered keys has 1 + N + 2
\* nodes and exactly the edges start -> analyst, analyst -> risk,
\* risk -> portfolio, portfolio -> END.
C7_PlanShape ==
    /\ (g.app # NoWorkflow /\ Len(ListOf(g.selected_analysts)) >= 1) =>
          PlanShape(g.app, ListOf(g.selected_analysts))
    /\ (agent # NoWorkflow /\ Len(ListOf(run_hedge_fund_selection(rhf.selected_analysts))) >= 1) =>
          PlanShape(agent, ListOf(run_hedge_fund_selection(rhf.selected_analysts)))

\* a plan has been built from two selected analysts
C7_Witness ==
    /\ pc = "built"
    /\ ~inp.selected.isNone /\ Len(inp.selected.list) = 2
    /\ Len(g.app.nodes) = 5

HasUnknownKey(selected_analysts) ==
    \E k \in Range(ListOf(selected_analysts)) : k \notin DOMAIN analyst_nodes

\* C8: create_workflow fails, and yields no plan, whenever some selected key
\* is not registered, wherever the key stands in the list.
C8_UnknownKeyFails ==
    /\ \A i \in 1..Len(build_log) : HasUnknownKey(build_log[i].sel) => ~build_log[i].ok
    /\ (pc = "built" /\ HasUnknownKey(inp.selected)) => (g.app = NoWorkflow /\ exc = "KeyError")

\* a build failed on an unknown key that follows a registered key
C8_Witness ==
    /\ pc = "built"
    /\ Len(inp.selected.list) = 2
    /\ inp.selected.list[1] \in DOMAIN analyst_nodes
    /\ inp.selected.list[2] \notin DOMAIN analyst_nodes
    /\ ~build_log[1].ok

ValidPortfolio ==
    portfolio.cash > 0 /\ portfolio.margin_requirement >= 0 /\ portfolio.margin_requirement <= 100

\* C10 (as claimed): no portfolio is constructed with initial cash <= 0 or a
\* margin requirement outside [0,1], and no stage runs with such a portfolio.
C10_PortfolioValidated ==
    /\ portfolio.built => ValidPortfolio
    /\ started # {} => ValidPortfolio

\* run_hedge_fund_gui has been entered with a date text that is not empty
\* and that strptime(text, "%Y-%m-%d") rejects
DateRejected ==
    /\ call.via # "none"
    /\ call.keys \subseteq GuiParams
    /\ pc \notin {"run_from_gui", "gui_enter"}
    /\ \/ ~call.start_date.empty /\ ~IsYMD(call.start_date)
       \/ ~call.end_date.empty /\ ~IsYMD(call.end_date)

RequestedTickers == IF rhf.caller = "gui" THEN call.tickers ELSE SplitTickers(inp.tickers)

RequestedCash == IF rhf.caller = "gui" THEN call.initial_cash ELSE Float(inp.cash)

RequestedMargin == IF rhf.caller = "gui" THEN call.margin_requirement ELSE Float(inp.margin)

\* C12: the portfolio constructed for a run has cash = initial cash,
\* margin_used = 0, positions and realized_gains keyed by exactly the
\* requested tickers, and every position and realized-gain field zero.
C12_PortfolioShape ==
    (pc = "rhf_enter" /\ portfolio.built) =>
        /\ portfolio.cash = RequestedCash
        /\ portfolio.margin_used = 0
        /\ DOMAIN portfolio.positions = Range(RequestedTickers)
        /\ DOMAIN portfolio.realized_gains = Range(RequestedTickers)
        /\ \A t \in DOMAIN portfolio.positions :
              /\ portfolio.positions[t].long = 0
              /\ portfolio.positions[t].short = 0
              /\ portfolio.positions[t].long_cost_basis = 0
              /\ portfolio.positions[t].short_cost_basis = 0
              /\ portfolio.positions[t].short_margin_used = 0
        /\ \A t \in DOMAIN portfolio.realized_gains :
              /\ portfolio.realized_gains[t].long = 0
              /\ portfolio.realized_gains[t].short = 0

\* run_hedge_fund_gui has just built the portfolio for two tickers
C12_Witness ==
    /\ pc = "rhf_enter"
    /\ rhf.caller = "gui"
    /\ portfolio.built
    /\ Len(RequestedTickers) = 2
    /\ portfolio.cash = 10000000

\* C13: from the stage start to the return of the result, the portfolio the
\* stages read is the caller's portfolio, and its cash, margin_requirement,
\* margin_used and the key sets of positions and realized_gains are what
\* they were at construction.
C13_PortfolioUnchanged ==
    data.taken =>
        /\ data.portfolio = portfolio
        /\ data.portfolio.cash = RequestedCash
        /\ data.portfolio.margin_requirement = RequestedMargin
        /\ data.portfolio.margin_used = 0
        /\ DOMAIN data.portfolio.positions = Range(RequestedTickers)
        /\ DOMAIN data.portfolio.realized_gains = Range(RequestedTickers)

\* the portfolio manager is running on a portfolio with cash
C13_Witness ==
    /\ pc = "invoke"
    /\ "portfolio_manager" \in active
    /\ task["portfolio_manager"] = "running"
    /\ data.portfolio.cash = 10000000
    /\ data.portfolio.margin_requirement = 50

\* C14: a value the facade returns has exactly one of two shapes: the keys
\* "decisions" and "analyst_signals" without "error", or the keys "error"
\* and "traceback", both with text, without "decisions".
C14_TwoShapes ==
    pc = "returned" =>
        LET success == /\ {"decisions", "analyst_signals"} \subseteq result.keys
                       /\ "error" \notin result.keys
            failure == /\ {"error", "traceback"} \subseteq result.keys
                       /\ "decisions" \notin result.keys
                       /\ result.error # "none" /\ result.traceback # "none"
        IN  (success \/ failure) /\ ~(success /\ failure)

\* the facade returned a success result whose decisions are None
C14_Witness ==
    /\ pc = "returned"
    /\ result.keys = {"decisions", "analyst_signals"}
    /\ result.decisions = NoneValue
    /\ DOMAIN result.analyst_signals # {}

Actions == {"buy", "sell", "short", "cover", "hold"}

\* C15: a success result with decisions other than None has one decision
\* per requested ticker, each with an action among buy, sell, short, cover,
\* hold and a confidence from 0 to 100.
C15_DecisionsPerTicker ==
    (pc \in {"returned", "gm_done"} /\ result.kind = "result"
        /\ result.decisions # NoneValue) =>
        /\ result.decisions.kind = "object"
        /\ DOMAIN result.decisions.map = Range(rhf.tickers)
        /\ \A t \in DOMAIN result.decisions.map :
              /\ result.decisions.map[t].action \in Actions
              /\ result.decisions.map[t].confidence \in 0..100

\* C16 (as claimed): for a malformed terminal payload the value returned
\* carries, besides decisions = None and the analyst signals, a populated
\* diagnostic of the parse failure.
C16_ParseErrorInResult ==
    (terminal.taken /\ Malformed(terminal.content)) =>
        /\ rhf_result.decisions = NoneValue
        /\ rhf_result.analyst_signals = analyst_signals
        /\ \/ "error" \in rhf_result.keys /\ rhf_result.error # "none"
           \/ "traceback" \in rhf_result.keys /\ rhf_result.traceback # "none"

\* C16 (amended): for a malformed terminal payload the value run_hedge_fund
\* returns has decisions = None and the analyst signals the stages produced
\* and nothing else: no key and no text reports the parse failure, and a
\* caller that passes the value on passes it unchanged.
C16_ParseErrorOnlyPrinted ==
    (terminal.taken /\ Malformed(terminal.content)) =>
        /\ rhf_result.keys = {"decisions", "analyst_signals"}
        /\ rhf_result.decisions = NoneValue
        /\ rhf_result.analyst_signals = analyst_signals
        /\ DOMAIN rhf_result.analyst_signals # {}
        /\ rhf_result.error = "none" /\ rhf_result.traceback = "none"
        /\ (pc \in {"returned", "gm_done"} /\ result.kind = "result") => result = rhf_result

\* run_hedge_fund returned after the portfolio manager emitted text that is
\* not JSON
C16_Witness ==
    /\ terminal.taken
    /\ terminal.content = PlainText
    /\ rhf_result.kind = "result"
    /\ pc \in {"gui_report", "gm_completed"}

\* C17: in run_hedge_fund_gui an empty end date becomes today's date, an
\* empty start date becomes the date three months before the resolved end
\* date (same day of the month, cut to the length of that month, written
\* YYYY-MM-DD), and a date that was given reaches the stages as given.
C17_DateDefaults ==
    (rhf.caller = "gui" /\ data.taken) =>
        LET e == strptime(data.end_date)
            s == strptime(data.start_date)
        IN  /\ call.end_date.empty => data.end_date = Today
            /\ ~call.end_date.empty => data.end_date = call.end_date
            /\ ~call.start_date.empty => data.start_date = call.start_date
            /\ call.start_date.empty =>
                  /\ IsYMD(data.start_date)
                  /\ data.start_date.padded
                  /\ 12 * e.y + e.m = 12 * s.y + s.m + 3
                  /\ s.d = IF e.d > DaysIn(s.y, s.m) THEN DaysIn(s.y, s.m) ELSE e.d

\* the stages run on "2024-5-31" as the end date and the last day of
\* February as the start date
C17_Witness ==
    /\ rhf.caller = "gui"
    /\ pc = "invoke"
    /\ call.start_date.empty
    /\ data.end_date = DateText(2024, 5, 31, "-", FALSE)
    /\ data.start_date = DateText(2024, 2, 29, "-", TRUE)

\* the orderings of a list of distinct keys
Orderings(l) == {p \in DistinctSeqs(Range(l), Len(l)) : Len(p) = Len(l)}

\* C18: create_workflow does not depend on the order of the keys: every
\* ordering of the selected keys yields the node set and the edge set of
\* the plan that was built.
C18_OrderIndependent ==
    (pc = "built" /\ exc = "none") =>
        \A p \in Orderings(ListOf(inp.selected)) :
            LET wf == create_workflow(Some(p), analyst_nodes)
            IN  /\ wf.err = "none"
                /\ Range(wf.nodes) = Range(g.app.nodes)
                /\ wf.edges = g.app.edges

\* a plan was built from two keys that are not in the order of the registry
C18_Witness ==
    /\ pc = "built" /\ exc = "none"
    /\ inp.selected = Some(<<"technical_analyst", "warren_buffett">>)
    /\ Cardinality(g.app.edges) = 6

\* C19 (as claimed): in one facade run the plan is built exactly once and
\* the plan that is executed is that built plan.
C19_BuiltOnce ==
    (rhf.caller = "gui" /\ data.taken) =>
        /\ Len(build_log) = 1
        /\ agent = g.app

\* C19 (amended): in a facade run that reaches execution create_workflow is
\* called by run_hedge_fund_gui (once, or twice when the first build fails
\* and the fallback is built) and then once more by run_hedge_fund, with the
\* selection run_hedge_fund_gui ended with; the plan that is executed is the
\* one run_hedge_fund built, it has the nodes and edges of the plan
\* run_hedge_fund_gui built, and it is not built again.
C19_BuiltPerFunction ==
    (rhf.caller = "gui" /\ data.taken) =>
        LET n == Len(build_log)
        IN  /\ n \in {2, 3}
            /\ n = 3 <=> ~build_log[1].ok
            /\ build_log[1].site = "gui"
            /\ n = 3 => build_log[2].site = "fallback"
            /\ build_log[n - 1].ok /\ build_log[n - 1].sel = g.selected_analysts
            /\ build_log[n].site = "run_hedge_fund"
            /\ build_log[n].ok /\ build_log[n].sel = g.selected_analysts
            /\ agent.nodes = g.app.nodes
            /\ agent.edges = g.app.edges
            /\ agent.entry = g.app.entry

\* the stages run after the fallback: three builds were made
C19_Witness ==
    /\ rhf.caller = "gui"
    /\ pc = "invoke"
    /\ Len(build_log) = 3
    /\ "risk_management_agent" \in started

\* C20: an analyst invocation that never returns does not block the run
\* forever: while the run is inside agent.invoke some step is always
\* possible (a return, a failure or a timeout of a node, or the next
\* superstep), so that the run goes on to return a result.
C20_HungAnalystTimesOut ==
    pc = "invoke" => ENABLED NextHang

\* C21 (as claimed): a run started from the launcher with inputs that
\* passed validation reaches the pipeline: run_from_gui does not return
\* before a workflow was built and a stage has begun.
C21_LauncherReachesPipeline ==
    (entry = "launcher" /\ pc = "returned") =>
        /\ build_log # <<>>
        /\ started # {}

\* C22 (as claimed): once run_hedge_fund has returned a result,
\* run_hedge_fund_gui returns that result, with its decisions and
\* analyst_signals, also when the report cannot be produced.
C22_ReportFailureKeepsResult ==
    (rhf.caller = "gui" /\ rhf_result.kind = "result" /\ pc = "returned") =>
        /\ result.kind = "result"
        /\ result.decisions = rhf_result.decisions
        /\ result.analyst_signals = rhf_result.analyst_signals

\* node names of a list of keys
NamesOf(keys) == {AgentName(k) : k \in Range(keys)}

AllRegistered(keys) == Range(keys) \subseteq DOMAIN analyst_nodes

\* analyst nodes that have begun
ExecutedAnalysts == started \ {"start_node", "risk_management_agent", "portfolio_manager"}

\* C23 (as claimed): the analysts that execute in run_hedge_fund_gui are
\* those of the caller's full selection or exactly the three defaults.
C23_SelectionOrDefaults ==
    (rhf.caller = "gui" /\ data.taken) =>
        /\ ExecutedAnalysts \subseteq AnalystNodesOf(agent)
        /\ \/ AnalystNodesOf(agent) = NamesOf(call.selected_analysts.list)
           \/ AnalystNodesOf(agent) = NamesOf(default_analysts)

\* C23 (amended): the analysts that execute are those of the caller's
\* selection when it is not empty and every key of it is registered, every
\* registered analyst when the selection is empty or missing, and exactly
\* the three defaults when a key of the selection is not registered; valid
\* keys of a mixed selection execute only if they are among the defaults.
C23_SelectionAllOrDefaults ==
    (rhf.caller = "gui" /\ data.taken) =>
        LET sel == call.selected_analysts
            plan == AnalystNodesOf(agent)
        IN  /\ ExecutedAnalysts \subseteq plan
            /\ (Truthy(sel) /\ AllRegistered(sel.list)) => plan = NamesOf(sel.list)
            /\ ~Truthy(sel) => plan = NamesOf(AnalystOrder(analyst_nodes))
            /\ (Truthy(sel) /\ ~AllRegistered(sel.list)) =>
                  /\ plan = NamesOf(default_analysts)
                  /\ \A k \in Range(sel.list) \ Range(default_analysts) :
                        AgentName(k) \notin ExecutedAnalysts

\* the defaults execute for a selection of one registered key that is not a
\* default and one unknown key
C23_Witness ==
    /\ rhf.caller = "gui"
    /\ call.selected_analysts = Some(<<"ben_graham", "bogus_analyst">>)
    /\ ExecutedAnalysts = NamesOf(default_analysts)

RunHedgeFundEntered == \E i \in 1..Len(build_log) : build_log[i].site = "run_hedge_fund"

\* C24: in run_hedge_fund the progress tracker is started once, before the
\* build and before any stage; it stays started while the stages run; and
\* once run_hedge_fund has been left (build failed, a stage raised, or the
\* result was returned) it has been stopped exactly once and is not running.
C24_ProgressBracket ==
    /\ progress.starts <= 1
    /\ progress.stops <= progress.starts
    /\ (RunHedgeFundEntered \/ started # {}) => progress.starts = 1
    /\ pc \in {"invoke", "rhf_return", "rhf_raise"} =>
          progress.starts = 1 /\ progress.stops = 0 /\ progress.running
    /\ (progress.starts = 1 /\ pc \notin {"invoke", "rhf_return", "rhf_raise"}) =>
          progress.stops = 1 /\ ~progress.running

\* run_hedge_fund was left by an exception of a stage and the tracker is
\* stopped
C24_Witness ==
    /\ pc \in {"gui_except", "gm_failed"}
    /\ exc = "ExecutionError"
    /\ progress = [running |-> FALSE, starts |-> 1, stops |-> 1]

\* C29 (as claimed): detect_gui_language returns "en" or "zh" whatever the
\* GUI_LANGUAGE variable, the configuration file and the system locale are,
\* so the lookup of the translation table in the report step does not fail.
C29_LanguageSupported ==
    gui_language # "none" =>
        /\ gui_language \in {"en", "zh"}
        /\ exc # "KeyError"

\* C25: in the gui_main window at most one analysis thread is in flight at
\* any time, and while one is in flight is_running is set.
C25_OneThreadInFlight ==
    entry = "gui_main" => gui.running <= 1 /\ (gui.running = 1 => gui.is_running)

\* a Run click has been refused while a thread was in flight
C25_Witness ==
    entry = "gui_main" /\ gui.running = 1 /\ gui.clicks = 2 /\ gui.started = 1

\* the thread has called run_hedge_fund with the parameters it read
ThreadCalled == entry = "gui_main" /\ rhf # NoRhf

\* C26: the parameters the thread passes to run_hedge_fund are the values
\* validate_inputs accepted in the same run_analysis call.
C26_ThreadUsesValidated ==
    ThreadCalled =>
        /\ rhf.tickers = SplitTickers(gui.validated.tickers)
        /\ rhf.start_date = gui.validated.start
        /\ rhf.end_date = gui.validated.end
        /\ rhf.selected_analysts = gui.validated.selected
        /\ portfolio = NewPortfolio(SplitTickers(gui.validated.tickers),
                                    Float(gui.validated.cash),
                                    Float(gui.validated.margin))

\* every thread started has ended and has had its one callback run, and
\* the window is ready for the next Run click
WindowReady ==
    /\ gui.running = 0
    /\ gui.callbacks = gui.started
    /\ ~gui.is_running
    /\ gui.button = "normal"

\* C27: every analysis thread started by run_analysis leads to exactly one
\* of _analysis_completed and _analysis_failed being run, after which
\* is_running is False and the Run button is enabled again.
C27_ThreadLeadsToCallback ==
    (entry = "gui_main" /\ pc = "gm_thread") ~> (pc = "gm_done" /\ WindowReady)

\* a thread whose run_hedge_fund call raised has had its failure callback run
C27_Witness ==
    /\ entry = "gui_main" /\ pc = "gm_done" /\ WindowReady
    /\ gui.started = 1 /\ progress.starts = 1 /\ result = NoResult

\* the launcher has started its analysis thread
LauncherThreadStarted == entry = "launcher" /\ pc \notin {"idle", "rejected"}

\* the text parses to a number
IsNumber(s) == IsFloat(s) /\ Float(s) # NaN

\* C28: the launcher's run_analysis starts an analysis thread only if the
\* ticker field is non-empty, an analyst is selected, initial cash parses to
\* a number > 0, the margin requirement parses to a number in [0,1], every
\* non-empty date is accepted as YYYY-MM-DD, and the provider is Ollama or
\* an LLM API key field is non-empty; otherwise no thread is started.
C28_ThreadOnlyIfValid ==
    (entry = "launcher" /\ pc # "idle") =>
        (LauncherThreadStarted <=>
            /\ inp.tickers # ""
            /\ Len(inp.selected.list) > 0
            /\ IsNumber(inp.cash) /\ Float(inp.cash) > 0
            /\ IsNumber(inp.margin) /\ Float(inp.margin) >= 0 /\ Float(inp.margin) <= 100
            /\ ~inp.start.empty => IsYMD(inp.start)
            /\ ~inp.end.empty => IsYMD(inp.end)
            /\ form.provider = "Ollama" \/ \E key \in LlmKeys : form.api_keys[key] # "")

\* create_env_file has run in this click
EnvFileSaved == entry = "launcher" /\ pc # "idle" /\ launcher_validate_inputs

\* the value a .env file gives a key: that of the last line with the key
EnvValue(file, key) ==
    LET at == {i \in 1..Len(file.lines) : file.lines[i].key = key}
    IN  IF at = {} THEN "(none)"
        ELSE file.lines[CHOOSE i \in at : \A j \in at : j <= i].value

IsValidValue(value) == value \notin {"", "(none)"} /\ ~StartsWithYour(value)

\* C30: after create_env_file, a key whose GUI field holds a non-empty
\* value not starting with "your_" has that value in .env; otherwise a
\* valid value already in .env is kept; otherwise the key has its
\* placeholder; and every other key of the old .env still has its value.
C30_EnvMerge ==
    EnvFileSaved =>
        /\ \A i \in 1..Len(ApiKeys) :
              LET key == ApiKeys[i]
                  now == EnvValue(dotenv, key)
                  old == EnvValue(form.dotenv, key)
              IN  IF IsValidValue(form.api_keys[key]) THEN now = form.api_keys[key]
                  ELSE IF IsValidValue(old) THEN now = old
                  ELSE now = Placeholder(key)
        /\ \A i \in 1..Len(form.dotenv.lines) :
              LET key == form.dotenv.lines[i].key
              IN  key \notin Range(ApiKeys) =>
                      EnvValue(dotenv, key) = EnvValue(form.dotenv, key)

====
